---- MODULE Spec2Model ----
(***************************************************************************)
(* Model of advanced_attendance/zkteco_connector.py: the ZKTecoConnector   *)
(* session channel (connect / disconnect / get_attendance_logs), the       *)
(* per-device sync (ZKTecoConnector.sync_device) and the fleet             *)
(* orchestration (sync_all_devices).                                       *)
(*                                                                         *)
(* External collaborators are modelled by their interface: the device is   *)
(* a nondeterministic replier (reply, short reply, timeout, socket error), *)
(* the Employee Checkin table is a sequence of rows with a commit mark,    *)
(* the Employee directory is a function from device user ids, and every    *)
(* store call may raise.  frappe.log_error / frappe.logger() never raise.  *)
(***************************************************************************)
EXTENDS Integers, Sequences, FiniteSets, TLC

(***************************************************************************)
(* Bounds of the model                                                     *)
(***************************************************************************)
MaxLogLen == 2
MaxFleetLogLen == 1
MaxDevices == 2
MaxSent == 3
MaxLongLog == 102
MaxReplyLen == 96

(***************************************************************************)
(* Program constants                                                       *)
(***************************************************************************)
BATCH_SIZE == 100
CMD_CONNECT == 1000
CMD_EXIT == 1002
CMD_ATTLOG == 13

None == "None"

\* The values the model draws device replies and configuration from.
UserIds == {1, 2}
Timestamps == {1}
Employees == {"EMP-001"}
SessionIds == {0, 258}
U16Samples == {0, 1, 255, 256, 258, 65535}

\* The k-th configured device: its address and its name.
Ip(k) == <<10, 0, 0, k>>
Name(k) == <<"ZK", k>>
NoIp == <<>>

VARIABLES
    employees,      \* Employee directory: attendance_device_id -> name or None
    checkins,       \* Employee Checkin table, rows in insertion order
    committed,      \* number of rows made durable by the last frappe.db.commit()
    conn,           \* the ZKTecoConnector of the running call
    call,           \* the connector method a client called last, its arguments and
                    \* what it returned
    data,           \* the bytes of that call: the datagram recvfrom returned, or
                    \* the header _create_header built
    pc,             \* position of the running call
    caller,         \* who invoked sync_device: "api" | "fleet" | "none"
    logs,           \* sync_device: logs
    i,              \* sync_device: loop index (0-based, next record)
    synced_count,   \* sync_device: synced_count
    errors,         \* sync_device: errors
    result,         \* sync_device: the dict it returns
    run0,           \* number of rows in the table when the running sync_device began
    diag,           \* what frappe.log_error recorded during the running sync_device
    failures,       \* the failures that occurred during the running sync_device
    workers,        \* sync_device invocations running concurrently in other processes
    last,           \* the previous sync_biometric_device call: device, logs read, outcome
    devices,        \* sync_all_devices: devices
    d,              \* sync_all_devices: number of devices already handled
    results,        \* sync_all_devices: results
    total_synced,   \* sync_all_devices: total_synced
    fleet_errors,   \* sync_all_devices: errors
    fleet_result    \* sync_all_devices: the dict it returns

storeVars == <<checkins, committed>>
syncVars == <<logs, i, synced_count, errors, result, run0, diag, failures>>
fleetVars == <<devices, d, results, total_synced, fleet_errors, fleet_result>>
vars == <<employees, checkins, committed, conn, call, data, pc, caller, logs, i,
          synced_count, errors, result, run0, diag, failures, workers, last,
          devices, d, results, total_synced, fleet_errors, fleet_result>>

\* `x if x else None` for a list x.
OrNone(x) == [is_none |-> x = <<>>, items |-> x]

(***************************************************************************)
(* ZKTecoConnector                                                         *)
(***************************************************************************)
\* __init__: socket None, session_id 0, reply_id 0; sent is the list of
\* datagrams this connector has handed to sendto.
ZKTecoConnector(ip) ==
    [device_ip |-> ip, socket |-> None, session_id |-> 0, reply_id |-> 0,
     sent |-> <<>>]

\* struct.pack('H', v), struct.unpack('H', b)[0], struct.unpack('I', b)[0]:
\* native sizes in the byte order of the host (little-endian).
pack_H(v) == <<v % 256, v \div 256>>
unpack_H(b) == b[1] + 256 * b[2]
unpack_I(b) == b[1] + 256 * b[2] + 65536 * b[3] + 16777216 * b[4]

\* Mutant of create_header: the session id and the reply id change places.
create_header_swapped(c, command, data_len) ==
    pack_H(command) \o pack_H(0) \o pack_H(c.reply_id) \o pack_H(c.session_id)
        \o pack_H(data_len)

\* _create_header: struct.pack('HHHH', command, 0, session_id, reply_id)
\* followed by struct.pack('H', data_len).
create_header(c, command, data_len) ==
    pack_H(command) \o pack_H(0) \o pack_H(c.session_id) \o pack_H(c.reply_id)
        \o pack_H(data_len)

\* What frappe.log_error records: connect(), get_attendance_logs() and the
\* loop of sync_device.
ConnectionError == [title |-> <<"ZKTeco Connector">>, message |-> <<"ZKTeco Connection Error">>]
FetchError == [title |-> <<"ZKTeco Connector">>, message |-> <<"Error fetching logs">>]
SyncLogError(ip) == [title |-> <<"Sync Log Error - Device", ip>>, message |-> <<"str(e)">>]

\* The device's side of the wire: the 8-byte header of a reply carrying
\* session id s and reply id r, and the 40-byte slot of a punch.
pack_I(v) ==
    <<v % 256, (v \div 256) % 256, (v \div 65536) % 256, (v \div 16777216) % 256>>
Ack(s, r) == pack_H(2000) \o pack_H(0) \o pack_H(s) \o pack_H(r)
Slot(rec) ==
    pack_I(rec.user_id) \o pack_I(rec.timestamp)
        \o <<rec.verify_type, rec.in_out_type>> \o [k \in 1..30 |-> 0]

\* Byte j (from 0) of the slot of rec.
SlotByte(rec, j) ==
    IF j < 4 THEN pack_I(rec.user_id)[j + 1]
    ELSE IF j < 8 THEN pack_I(rec.timestamp)[j - 3]
    ELSE IF j = 8 THEN rec.verify_type
    ELSE IF j = 9 THEN rec.in_out_type
    ELSE 0

\* The slots of the records of lg, one after the other.
Slots(lg) ==
    [k \in 1..(40 * Len(lg)) |-> SlotByte(lg[((k - 1) \div 40) + 1], (k - 1) % 40)]

\* The reply to a read-logs request of a device holding log lg.
AttLogReply(lg) == Ack(0, 0) \o Slots(lg)

\* What the device does with a connect request: no socket, no send, no
\* answer in time, or a reply datagram, complete (ids from IdSet) or cut short.
ConnectOutcomes(IdSet) ==
    {[kind |-> k, data |-> <<>>] : k \in {"sockerr", "senderr", "timeout"}}
    \cup {[kind |-> "reply", data |-> SubSeq(Ack(s, r), 1, n)] :
            s \in IdSet, r \in IdSet, n \in {7, 8}}

\* Mutant of session_of: the session id is read where the reply id is.
session_of_reply_offset(reply) == unpack_H(SubSeq(reply, 7, 8))

\* struct.unpack('H', data[4:6])[0] and struct.unpack('H', data[6:8])[0]
session_of(reply) == unpack_H(SubSeq(reply, 5, 6))
reply_of(reply) == unpack_H(SubSeq(reply, 7, 8))

\* connect(): the connector afterwards, the value returned, what was logged
\* and the datagram recvfrom returned, if any.
connect(c, o) ==
    IF o.kind = "sockerr"
    THEN \* socket.socket() raised: self.socket keeps its value
         [conn |-> c, ret |-> FALSE, logged |-> <<ConnectionError>>, data |-> <<>>]
    ELSE LET opened == [c EXCEPT !.socket = "open"]
             hdr == create_header(c, CMD_CONNECT, 0)
         IN  IF o.kind = "senderr"
             THEN [conn |-> opened, ret |-> FALSE, logged |-> <<ConnectionError>>,
                   data |-> <<>>]
             ELSE LET sentc == [opened EXCEPT !.sent = Append(@, hdr)]
                  IN  IF o.kind = "timeout"
                      THEN [conn |-> sentc, ret |-> FALSE,
                            logged |-> <<ConnectionError>>, data |-> <<>>]
                      ELSE IF Len(o.data) >= 8
                      THEN [conn |-> [sentc EXCEPT !.session_id = session_of(o.data),
                                                   !.reply_id = reply_of(o.data)],
                            ret |-> TRUE, logged |-> <<>>, data |-> o.data]
                      ELSE \* len(data) < 8: return False, nothing logged
                           [conn |-> sentc, ret |-> FALSE, logged |-> <<>>,
                            data |-> o.data]

\* disconnect(): sendOk is whether sendto of the exit command succeeds.
disconnect(c, sendOk) ==
    IF c.socket = None
    THEN c
    ELSE IF sendOk
         THEN [c EXCEPT !.sent = Append(@, create_header(c, CMD_EXIT, 0)),
                        !.socket = None]
         ELSE \* sendto raised: close() and socket = None are skipped,
              \* the bare except swallows the error
              c

\* A decoded 40-byte slot: the dict get_attendance_logs appends.
Records ==
    [user_id : UserIds, timestamp : Timestamps, verify_type : {1},
     in_out_type : {0, 1}]

\* Every device log of at most n records.
Logs(n) == UNION {[1..k -> Records] : k \in 0..n}

\* What the device does with a read-logs request: no send, no answer in
\* time, or a reply datagram, either one of Replies or one cut short of its
\* header.
ReadOutcomes(Replies) ==
    {[kind |-> k, data |-> <<>>] : k \in {"senderr", "timeout"}}
    \cup {[kind |-> "reply", data |-> b] : b \in Replies \cup {SubSeq(Ack(0, 0), 1, 4)}}

\* Mutant of DecodeSlot: the in/out type is read from the verify-type byte.
DecodeSlot_same_byte(reply, offset) ==
    [user_id |-> unpack_I(SubSeq(reply, offset + 1, offset + 4)),
     timestamp |-> unpack_I(SubSeq(reply, offset + 5, offset + 8)),
     verify_type |-> reply[offset + 9],
     in_out_type |-> reply[offset + 9]]

\* The dict built from data[offset:offset+10] (offset counts from 0).
DecodeSlot(reply, offset) ==
    [user_id |-> unpack_I(SubSeq(reply, offset + 1, offset + 4)),
     timestamp |-> unpack_I(SubSeq(reply, offset + 5, offset + 8)),
     verify_type |-> reply[offset + 9],
     in_out_type |-> reply[offset + 10]]

\* Whether the while loop runs its body at offset: the loop condition holds
\* and the break is not taken.
SlotAt(reply, offset) == offset < Len(reply) /\ ~(offset + 40 > Len(reply))

\* while offset < len(data): if offset + 40 > len(data): break; ...; offset += 40
\* from offset start: the loop decodes at start, start + 40, ... up to the
\* first of these offsets at which it stops.
ParseLogs(reply, start) ==
    LET n == CHOOSE n \in 0..Len(reply) :
                /\ ~SlotAt(reply, start + 40 * n)
                /\ \A k \in 0..(n - 1) : SlotAt(reply, start + 40 * k)
    IN  [k \in 1..n |-> DecodeSlot(reply, start + 40 * (k - 1))]

\* get_attendance_logs(): the connector afterwards, the list returned, what
\* was logged and the datagram recvfrom returned, if any.
get_attendance_logs(c, o) ==
    IF c.socket = None \/ o.kind = "senderr"
    THEN \* self.socket is None (AttributeError) or sendto raised: caught, []
         [conn |-> c, ret |-> <<>>, logged |-> <<FetchError>>, data |-> <<>>]
    ELSE LET sentc == [c EXCEPT !.sent = Append(@, create_header(c, CMD_ATTLOG, 0))]
         IN  IF o.kind = "timeout"
             THEN [conn |-> sentc, ret |-> <<>>, logged |-> <<FetchError>>,
                   data |-> <<>>]
             ELSE IF Len(o.data) < 8
             THEN [conn |-> sentc, ret |-> <<>>, logged |-> <<>>, data |-> o.data]
             ELSE [conn |-> sentc, ret |-> ParseLogs(o.data, 8), logged |-> <<>>,
                   data |-> o.data]

(***************************************************************************)
(* The destination store and the employee directory                        *)
(***************************************************************************)
\* frappe.db.get_value('Employee', {'attendance_device_id': str(user_id)}, 'name')
get_value(emp, user_id) == emp[user_id]

\* datetime.fromtimestamp(ts): the naive local datetime of an epoch second.
fromtimestamp(ts) == <<"datetime", ts>>

\* 'IN' if log['in_out_type'] == 0 else 'OUT'
LogType(in_out_type) == IF in_out_type = 0 THEN "IN" ELSE "OUT"

\* Mutant of exists: the log type is compared in the wrong case, so no row
\* ever matches.
exists_wrong_case(rows, employee, time, log_type) ==
    \E k \in 1..Len(rows) :
        /\ rows[k].employee = employee
        /\ rows[k].time = time
        /\ rows[k].log_type = (IF log_type = "IN" THEN "in" ELSE "out")

\* frappe.db.exists('Employee Checkin', {employee, time, log_type})
exists(rows, employee, time, log_type) ==
    \E k \in 1..Len(rows) :
        /\ rows[k].employee = employee
        /\ rows[k].time = time
        /\ rows[k].log_type = log_type

\* Mutant of insert: the row is written with its time shifted, as a store
\* converting the naive datetime to another zone would.
insert_shifted(rows, employee, time, log_type, device_id) ==
    Append(rows, [employee |-> employee, time |-> <<"datetime", time[2] + 1>>,
                  log_type |-> log_type, device_id |-> device_id])

\* frappe.get_doc({...}).insert(ignore_permissions=True)
insert(rows, employee, time, log_type, device_id) ==
    Append(rows, [employee |-> employee, time |-> time,
                  log_type |-> log_type, device_id |-> device_id])

(***************************************************************************)
(* sync_device: the body of the for loop                                   *)
(***************************************************************************)
NotFound(user_id) == <<"Employee not found for device ID", user_id>>

\* Mutant of ProcessingError: the position is reported 1-based.
ProcessingError_one_based(idx) == <<"Error processing log", idx + 1>>

ProcessingError(idx) == <<"Error processing log", idx>>

\* Mutant of NotEmployee: the unresolved case is not tested.
NotEmployee_unchecked(employee) == FALSE

\* `if not employee`
NotEmployee(employee) == employee = None

\* The store calls of one iteration that may raise.
StoreFaults == {"none", "get_value", "exists", "insert", "commit"}

\* Whether the batch commit is due after record idx (0-based).
BatchDue(idx) == (idx + 1) % BATCH_SIZE = 0

\* One iteration of the loop over record log at index idx (0-based), on
\* st = [checkins, committed, synced_count, errors]; fault names the store
\* call that raises in this iteration, if it is reached.
ProcessLog(st, emp, device_ip, idx, log, fault) ==
    LET raised == [st EXCEPT !.errors = Append(@, ProcessingError(idx))]
        employee == get_value(emp, log.user_id)
        punch_time == fromtimestamp(log.timestamp)
        log_type == LogType(log.in_out_type)
        commit(s) ==
            IF BatchDue(idx)
            THEN IF fault = "commit"
                 THEN [s EXCEPT !.errors = Append(@, ProcessingError(idx))]
                 ELSE [s EXCEPT !.committed = Len(s.checkins)]
            ELSE s
    IN  IF fault = "get_value" THEN raised
        ELSE IF NotEmployee(employee)
        THEN \* errors.append(...); continue
             [st EXCEPT !.errors = Append(@, NotFound(log.user_id))]
        ELSE IF fault = "exists" THEN raised
        ELSE IF exists(st.checkins, employee, punch_time, log_type)
        THEN commit(st)
        ELSE IF fault = "insert" THEN raised
        ELSE commit([st EXCEPT
                        !.checkins = insert(@, employee, punch_time, log_type, device_ip),
                        !.synced_count = @ + 1])

(***************************************************************************)
(* sync_device: the dicts it returns                                       *)
(***************************************************************************)
NoResult == [success |-> FALSE, message |-> <<None>>]
\* Mutant of ConnectFailed: the message does not name the device.
ConnectFailed_no_address(ip) ==
    [success |-> FALSE, message |-> <<"Failed to connect to device">>]

ConnectFailed(ip) ==
    [success |-> FALSE, message |-> <<"Failed to connect to device at", ip>>]
NoNewLogs ==
    [success |-> TRUE, message |-> <<"No new attendance logs found">>, synced |-> 0]
Synced(n, errs) ==
    [success |-> TRUE, message |-> <<"Synced", n, "attendance logs">>, synced |-> n,
     errors |-> OrNone(errs)]
SyncError ==
    [success |-> FALSE, message |-> <<"Error during sync">>]

\* result.get('synced', 0)
GetSynced(r) == IF "synced" \in DOMAIN r THEN r.synced ELSE 0

IsProcessingError(e) == e[1] = "Error processing log"
IsNotFound(e) == e[1] = "Employee not found for device ID"

\* frappe.log_error(str(e), f"Sync Log Error - Device {device_ip}"): one entry
\* per exception the loop caught, errs being the error strings it appended.
RecordLogged(errs, ip) ==
    [k \in 1..Len(SelectSeq(errs, IsProcessingError)) |-> SyncLogError(ip)]

\* The failures of a sync, by kind: what went wrong with the read-logs
\* exchange under outcome o, and behind the error strings errs of the loop.
ReadFailures(o) ==
    IF o.kind = "senderr" THEN <<"read_send">>
    ELSE IF o.kind = "timeout" THEN <<"read_timeout">>
    ELSE IF Len(o.data) < 8 THEN <<"read_short">>
    ELSE <<>>
RecordFailures(errs) ==
    [k \in 1..Len(errs) |-> IF IsProcessingError(errs[k]) THEN "record" ELSE "unresolved"]

(***************************************************************************)
(* The previous sync_biometric_device call, as the next one finds it: the  *)
(* device, and the log it read when it returned success without any        *)
(* per-record exception.                                                   *)
(***************************************************************************)
NoRun == [ip |-> NoIp, logs |-> <<>>, clean |-> FALSE]
Remember(ip, lg, errs, r) ==
    IF r.success /\ \A k \in 1..Len(errs) : ~IsProcessingError(errs[k])
    THEN [ip |-> ip, logs |-> lg, clean |-> TRUE]
    ELSE [ip |-> ip, logs |-> <<>>, clean |-> FALSE]

(***************************************************************************)
(* Initial states                                                          *)
(***************************************************************************)
\* Rows another device's sync left in the table.
ForeignRows ==
    [employee : Employees, time : {fromtimestamp(t) : t \in Timestamps},
     log_type : {"IN", "OUT"}, device_id : {Ip(2)}]
InitialStores == {<<>>} \cup {<<r>> : r \in ForeignRows}

Idle ==
    /\ conn = ZKTecoConnector(NoIp)
    /\ call = [op |-> None, args |-> <<>>, ok |-> FALSE, logs |-> <<>>]
    /\ data = <<>>
    /\ pc = "idle"
    /\ caller = "none"
    /\ logs = <<>>
    /\ i = 0
    /\ synced_count = 0
    /\ errors = <<>>
    /\ result = NoResult
    /\ run0 = 0
    /\ diag = <<>>
    /\ failures = <<>>
    /\ workers = <<>>
    /\ last = NoRun
    /\ devices = <<>>
    /\ d = 0
    /\ results = <<>>
    /\ total_synced = 0
    /\ fleet_errors = <<>>
    /\ fleet_result = NoResult

Init ==
    /\ employees \in [UserIds -> Employees \cup {None}]
    /\ checkins \in InitialStores
    /\ committed = Len(checkins)
    /\ Idle

(***************************************************************************)
(* sync_device(device_ip, device_port)                                     *)
(***************************************************************************)
\* Entry: connector = ZKTecoConnector(device_ip, device_port).
SyncDeviceEnter(ip, who) ==
    /\ conn' = ZKTecoConnector(ip)
    /\ caller' = who
    /\ pc' = "connect"
    /\ logs' = <<>>
    /\ i' = 0
    /\ synced_count' = 0
    /\ errors' = <<>>
    /\ result' = NoResult
    /\ run0' = Len(checkins)
    /\ diag' = <<>>
    /\ failures' = <<>>
    /\ UNCHANGED <<employees, storeVars, call, data, workers>>

\* if not connector.connect(): return {'success': False, ...}
SyncDeviceConnect(IdSet) ==
    /\ pc = "connect"
    /\ \E o \in ConnectOutcomes(IdSet) :
         LET r == connect(conn, o)
         IN  /\ conn' = r.conn
             /\ diag' = diag \o r.logged
             /\ IF r.ret
                THEN /\ pc' = "get_logs"
                     /\ UNCHANGED <<result, failures>>
                ELSE /\ pc' = "return"
                     /\ result' = ConnectFailed(conn.device_ip)
                     /\ failures' = Append(failures, "connect")
    /\ UNCHANGED <<employees, storeVars, call, data, workers, caller, logs, i,
                   synced_count, errors, run0, last, fleetVars>>

\* logs = connector.get_attendance_logs(); if not logs: return {...}
SyncDeviceGetLogs(LogSet) ==
    /\ pc = "get_logs"
    /\ \E o \in ReadOutcomes({AttLogReply(lg) : lg \in LogSet}) :
         LET r == get_attendance_logs(conn, o)
         IN  /\ conn' = r.conn
             /\ logs' = r.ret
             /\ diag' = diag \o r.logged
             /\ failures' = failures \o ReadFailures(o)
             /\ IF r.ret = <<>>
                THEN pc' = "finally" /\ result' = NoNewLogs
                ELSE pc' = "loop" /\ UNCHANGED result
    /\ UNCHANGED <<employees, storeVars, call, data, workers, caller, i,
                   synced_count, errors, run0, last, fleetVars>>

\* Mutant of AfterRecord: the loop never leaves its last record.
AfterRecord_stuck(idx, lg) == "loop"

\* Where the loop goes after record idx: the next record, or past the loop.
AfterRecord(idx, lg) == IF idx + 1 < Len(lg) THEN "loop" ELSE "final_commit"

\* for i, log in enumerate(logs): one iteration.
SyncDeviceProcessLog(Faults) ==
    /\ pc = "loop"
    /\ i < Len(logs)
    /\ \E fault \in Faults :
         LET st == ProcessLog([checkins |-> checkins, committed |-> committed,
                               synced_count |-> synced_count, errors |-> errors],
                              employees, conn.device_ip, i, logs[i + 1], fault)
             new == SubSeq(st.errors, Len(errors) + 1, Len(st.errors))
         IN  /\ checkins' = st.checkins
             /\ committed' = st.committed
             /\ synced_count' = st.synced_count
             /\ errors' = st.errors
             /\ diag' = diag \o RecordLogged(new, conn.device_ip)
             /\ failures' = failures \o RecordFailures(new)
    /\ i' = i + 1
    /\ pc' = AfterRecord(i, logs)
    /\ UNCHANGED <<employees, conn, call, data, workers, caller, logs, result,
                   run0, last, fleetVars>>

\* frappe.db.commit() after the loop, then the success dict; an exception
\* here reaches the outer except.
SyncDeviceFinalCommit(Faults) ==
    /\ pc = "final_commit"
    /\ \E fault \in Faults \cap {"none", "commit"} :
         IF fault = "commit"
         THEN result' = SyncError /\ UNCHANGED committed
         ELSE result' = Synced(synced_count, errors) /\ committed' = Len(checkins)
    /\ pc' = "finally"
    /\ UNCHANGED <<employees, checkins, conn, call, data, workers, caller, logs, i,
                   synced_count, errors, run0, diag, failures, last, fleetVars>>

\* finally: connector.disconnect()
SyncDeviceFinally ==
    /\ pc = "finally"
    /\ \E sendOk \in BOOLEAN : conn' = disconnect(conn, sendOk)
    /\ pc' = "return"
    /\ UNCHANGED <<employees, storeVars, call, data, workers, caller, logs, i,
                   synced_count, errors, result, run0, diag, failures, last,
                   fleetVars>>

\* The return: the connector and the locals go out of scope.
SyncDeviceLeave ==
    /\ conn' = ZKTecoConnector(NoIp)
    /\ logs' = <<>>
    /\ i' = 0
    /\ synced_count' = 0
    /\ errors' = <<>>
    /\ result' = NoResult
    /\ run0' = 0
    /\ diag' = <<>>
    /\ failures' = <<>>

(***************************************************************************)
(* sync_biometric_device(device_ip, device_port): the whitelisted API      *)
(***************************************************************************)
SyncBiometricDevice ==
    /\ pc = "idle"
    /\ SyncDeviceEnter(Ip(1), "api")
    /\ UNCHANGED <<last, fleetVars>>

\* return ZKTecoConnector.sync_device(...)
SyncBiometricDeviceReturn ==
    /\ pc = "return"
    /\ caller = "api"
    /\ last' = Remember(conn.device_ip, logs, errors, result)
    /\ SyncDeviceLeave
    /\ pc' = "idle"
    /\ caller' = "none"
    /\ UNCHANGED <<employees, storeVars, call, data, workers, fleetVars>>

Next ==
    \/ SyncBiometricDevice
    \/ SyncDeviceConnect({1})
    \/ SyncDeviceGetLogs(Logs(MaxLogLen))
    \/ SyncDeviceProcessLog(StoreFaults)
    \/ SyncDeviceFinalCommit(StoreFaults)
    \/ SyncDeviceFinally
    \/ SyncBiometricDeviceReturn

Spec == Init /\ [][Next]_vars

(***************************************************************************)
(* sync_all_devices()                                                      *)
(***************************************************************************)
\* frappe.get_all('Biometric Device Settings', filters={'enabled': 1}, ...):
\* the enabled devices, each once, in the order the store returns them.
DeviceLists ==
    LET orders == {s \in UNION {[1..n -> 1..MaxDevices] : n \in 0..MaxDevices} :
                      \A a, b \in DOMAIN s : a # b => s[a] # s[b]}
    IN  {[k \in DOMAIN s |-> [name |-> Name(s[k]), device_ip |-> Ip(s[k])]] :
            s \in orders}

NoDevices ==
    [success |-> TRUE, message |-> <<"No enabled devices found">>,
     devices_synced |-> 0]
FleetFailed ==
    [success |-> FALSE, message |-> <<"Error syncing devices">>,
     devices_synced |-> 0]

\* Mutant of FleetDone: the call reports failure when a device failed.
FleetDone_fail_on_errors(total, devs, res, errs) ==
    [success |-> errs = <<>>,
     message |-> <<"Synced", total, "records from", Len(devs), "device(s)">>,
     devices_synced |-> Len(devs), total_records |-> total, results |-> res,
     errors |-> OrNone(errs)]

\* The dict returned after the loop.
FleetDone(total, devs, res, errs) ==
    [success |-> TRUE,
     message |-> <<"Synced", total, "records from", Len(devs), "device(s)">>,
     devices_synced |-> Len(devs), total_records |-> total, results |-> res,
     errors |-> OrNone(errs)]

DeviceError(device, r) == <<device.name, r.message>>

\* Mutant of Collect: the total is overwritten instead of added to.
Collect_overwrite(acc, device, r) ==
    [results |-> Append(acc.results,
                        [device |-> device.name, ip |-> device.device_ip, result |-> r]),
     total_synced |-> IF r.success THEN GetSynced(r) ELSE acc.total_synced,
     errors |-> IF r.success THEN acc.errors
                ELSE Append(acc.errors, DeviceError(device, r))]

\* The body of the loop after sync_device has returned r for device.
Collect(acc, device, r) ==
    [results |-> Append(acc.results,
                        [device |-> device.name, ip |-> device.device_ip, result |-> r]),
     total_synced |-> IF r.success THEN acc.total_synced + GetSynced(r)
                      ELSE acc.total_synced,
     errors |-> IF r.success THEN acc.errors
                ELSE Append(acc.errors, DeviceError(device, r))]

\* Mutant of LoopDone: the loop stops at the first device that failed.
LoopDone_stop_on_failure(handled, devs, res) ==
    \/ handled >= Len(devs)
    \/ res # <<>> /\ ~res[Len(res)].result.success

\* `for device in devices` is exhausted.
LoopDone(handled, devs, res) == handled >= Len(devs)

\* Entry: load the enabled devices; get_all may raise.
SyncAllDevices ==
    /\ pc = "idle"
    /\ \/ /\ pc' = "fleet_except"
          /\ UNCHANGED <<devices, fleet_result>>
       \/ \E devs \in DeviceLists :
            /\ devices' = devs
            /\ IF devs = <<>>
               THEN pc' = "fleet_return" /\ fleet_result' = NoDevices
               ELSE pc' = "fleet_loop" /\ UNCHANGED fleet_result
    /\ d' = 0
    /\ results' = <<>>
    /\ total_synced' = 0
    /\ fleet_errors' = <<>>
    /\ UNCHANGED <<employees, storeVars, conn, call, data, workers, caller,
                   syncVars, last>>

\* except Exception (outer): log, return {'success': False, ...}
SyncAllDevicesExcept ==
    /\ pc = "fleet_except"
    /\ fleet_result' = FleetFailed
    /\ pc' = "fleet_return"
    /\ UNCHANGED <<employees, storeVars, conn, call, data, workers, caller,
                   syncVars, last, devices, d, results, total_synced, fleet_errors>>

\* result = ZKTecoConnector.sync_device(device.device_ip, device.device_port)
SyncAllDevicesCall ==
    /\ pc = "fleet_loop"
    /\ ~LoopDone(d, devices, results)
    /\ SyncDeviceEnter(devices[d + 1].device_ip, "fleet")
    /\ UNCHANGED <<last, fleetVars>>

\* results.append(...); total_synced += ... or errors.append(...).
\* sync_device catches every exception, so the inner except is never entered.
SyncAllDevicesCollect ==
    /\ pc = "return"
    /\ caller = "fleet"
    /\ LET acc == Collect([results |-> results, total_synced |-> total_synced,
                           errors |-> fleet_errors], devices[d + 1], result)
       IN  /\ results' = acc.results
           /\ total_synced' = acc.total_synced
           /\ fleet_errors' = acc.errors
    /\ d' = d + 1
    /\ SyncDeviceLeave
    /\ pc' = "fleet_loop"
    /\ caller' = "none"
    /\ UNCHANGED <<employees, storeVars, call, data, workers, last, devices,
                   fleet_result>>

\* After the loop: the combined dict.
SyncAllDevicesFinish ==
    /\ pc = "fleet_loop"
    /\ LoopDone(d, devices, results)
    /\ fleet_result' = FleetDone(total_synced, devices, results, fleet_errors)
    /\ pc' = "fleet_return"
    /\ UNCHANGED <<employees, storeVars, conn, call, data, workers, caller,
                   syncVars, last, devices, d, results, total_synced, fleet_errors>>

\* The return to the caller (the scheduled job or the API).
SyncAllDevicesReturn ==
    /\ pc = "fleet_return"
    /\ pc' = "idle"
    /\ devices' = <<>>
    /\ d' = 0
    /\ results' = <<>>
    /\ total_synced' = 0
    /\ fleet_errors' = <<>>
    /\ fleet_result' = NoResult
    /\ UNCHANGED <<employees, storeVars, conn, call, data, workers, caller,
                   syncVars, last>>

NextFleet ==
    \/ SyncAllDevices
    \/ SyncAllDevicesExcept
    \/ SyncAllDevicesCall
    \/ SyncDeviceConnect({1})
    \/ SyncDeviceGetLogs(Logs(MaxFleetLogLen))
    \/ SyncDeviceProcessLog(StoreFaults)
    \/ SyncDeviceFinalCommit(StoreFaults)
    \/ SyncDeviceFinally
    \/ SyncAllDevicesCollect
    \/ SyncAllDevicesFinish
    \/ SyncAllDevicesReturn

SpecFleet == Init /\ [][NextFleet]_vars

\* The calls run in one thread that is never cancelled: every socket wait
\* ends by a reply or by the timeout set in connect(), and every store call
\* returns or raises, so a step that can be taken is taken.
SpecLive == Init /\ [][NextFleet]_vars /\ WF_vars(NextFleet)

(***************************************************************************)
(* A client of one ZKTecoConnector calling its public methods in any order *)
(***************************************************************************)
InitConn ==
    /\ employees = [u \in UserIds |-> None]
    /\ checkins = <<>>
    /\ committed = 0
    /\ conn = ZKTecoConnector(Ip(1))
    /\ call = [op |-> None, args |-> <<>>, ok |-> FALSE, logs |-> <<>>]
    /\ data = <<>>
    /\ pc = "client"
    /\ caller = "none"
    /\ logs = <<>>
    /\ i = 0
    /\ synced_count = 0
    /\ errors = <<>>
    /\ result = NoResult
    /\ run0 = 0
    /\ diag = <<>>
    /\ failures = <<>>
    /\ workers = <<>>
    /\ last = NoRun
    /\ devices = <<>>
    /\ d = 0
    /\ results = <<>>
    /\ total_synced = 0
    /\ fleet_errors = <<>>
    /\ fleet_result = NoResult

ClientFrame ==
    UNCHANGED <<employees, storeVars, workers, pc, caller, syncVars, last,
                fleetVars>>

ClientConnect ==
    /\ pc = "client"
    /\ Len(conn.sent) < MaxSent
    /\ \E o \in ConnectOutcomes(SessionIds) :
         LET r == connect(conn, o)
         IN  /\ conn' = r.conn
             /\ call' = [op |-> "connect", args |-> <<>>, ok |-> r.ret,
                         logs |-> <<>>]
             /\ data' = r.data
    /\ ClientFrame

ClientDisconnect ==
    /\ pc = "client"
    /\ Len(conn.sent) < MaxSent
    /\ \E sendOk \in BOOLEAN : conn' = disconnect(conn, sendOk)
    /\ call' = [op |-> "disconnect", args |-> <<>>, ok |-> TRUE, logs |-> <<>>]
    /\ data' = <<>>
    /\ ClientFrame

ClientGetAttendanceLogs(Replies) ==
    /\ pc = "client"
    /\ Len(conn.sent) < MaxSent
    /\ \E o \in ReadOutcomes(Replies) :
         LET r == get_attendance_logs(conn, o)
         IN  /\ conn' = r.conn
             /\ call' = [op |-> "get_attendance_logs", args |-> <<>>, ok |-> TRUE,
                         logs |-> r.ret]
             /\ data' = r.data
    /\ ClientFrame

NextConn ==
    \/ ClientConnect
    \/ ClientDisconnect
    \/ ClientGetAttendanceLogs({AttLogReply(lg) : lg \in Logs(1)})

SpecConn == InitConn /\ [][NextConn]_vars

(***************************************************************************)
(* A client reading logs from a device whose reply is any datagram         *)
(***************************************************************************)
\* n bytes, the k-th of which is k * m modulo 256; the top byte of the two
\* 32-bit fields of a slot stays below 128, the integers of the model being
\* 32 bits wide and signed.
Fill(m, n) ==
    [k \in 1..n |-> IF k > 8 /\ (k - 8) % 40 \in {4, 8} THEN (k * m) % 128
                    ELSE (k * m) % 256]

ReplyBuffers == {Fill(m, n) : m \in {1, 37}, n \in 0..MaxReplyLen}

NextDecode ==
    \/ ClientConnect
    \/ ClientGetAttendanceLogs(ReplyBuffers)

SpecDecode == InitConn /\ [][NextDecode]_vars

(***************************************************************************)
(* A client building headers on a connector that has connected             *)
(***************************************************************************)
InitHeader ==
    /\ employees = [u \in UserIds |-> None]
    /\ checkins = <<>>
    /\ committed = 0
    /\ \E s \in U16Samples, r \in U16Samples :
         conn = connect(ZKTecoConnector(Ip(1)), [kind |-> "reply", data |-> Ack(s, r)]).conn
    /\ call = [op |-> "connect", args |-> <<>>, ok |-> TRUE, logs |-> <<>>]
    /\ data = <<>>
    /\ pc = "client"
    /\ caller = "none"
    /\ logs = <<>>
    /\ i = 0
    /\ synced_count = 0
    /\ errors = <<>>
    /\ result = NoResult
    /\ run0 = 0
    /\ diag = <<>>
    /\ failures = <<>>
    /\ workers = <<>>
    /\ last = NoRun
    /\ devices = <<>>
    /\ d = 0
    /\ results = <<>>
    /\ total_synced = 0
    /\ fleet_errors = <<>>
    /\ fleet_result = NoResult

\* self._create_header(command, data_len)
ClientCreateHeader ==
    /\ pc = "client"
    /\ \E command \in U16Samples, data_len \in U16Samples :
         /\ data' = create_header(conn, command, data_len)
         /\ call' = [op |-> "_create_header", args |-> <<command, data_len>>,
                     ok |-> TRUE, logs |-> <<>>]
    /\ UNCHANGED conn
    /\ ClientFrame

NextHeader == ClientCreateHeader

SpecHeader == InitHeader /\ [][NextHeader]_vars

(***************************************************************************)
(* Two sync_device invocations in two processes over one store: a          *)
(* sync_biometric_device call on device 1 overlapping the scheduled        *)
(* sync_all_devices at device 2.  Each has connected and read its log;     *)
(* every frappe.db call is one step, and a row is visible to the other     *)
(* process as soon as it is inserted.                                      *)
(***************************************************************************)
Worker(ip, lg) ==
    [device_ip |-> ip, logs |-> lg, i |-> 0, at |-> "get_value", employee |-> None,
     synced_count |-> 0, errors |-> <<>>]

InitRace ==
    /\ employees \in [UserIds -> Employees \cup {None}]
    /\ checkins \in InitialStores
    /\ committed = Len(checkins)
    /\ workers \in {<<Worker(Ip(1), a), Worker(Ip(2), b)>> :
                      a \in Logs(MaxFleetLogLen) \ {<<>>},
                      b \in Logs(MaxFleetLogLen) \ {<<>>}}
    /\ conn = ZKTecoConnector(NoIp)
    /\ call = [op |-> None, args |-> <<>>, ok |-> FALSE, logs |-> <<>>]
    /\ data = <<>>
    /\ pc = "workers"
    /\ caller = "none"
    /\ logs = <<>>
    /\ i = 0
    /\ synced_count = 0
    /\ errors = <<>>
    /\ result = NoResult
    /\ run0 = Len(checkins)
    /\ diag = <<>>
    /\ failures = <<>>
    /\ last = NoRun
    /\ devices = <<>>
    /\ d = 0
    /\ results = <<>>
    /\ total_synced = 0
    /\ fleet_errors = <<>>
    /\ fleet_result = NoResult

WorkerFrame ==
    UNCHANGED <<employees, conn, call, data, pc, caller, syncVars, last, fleetVars>>

\* The end of an iteration of worker w: the next record, or past the loop.
EndOfRecord(w) ==
    [w EXCEPT !.i = @ + 1,
              !.at = IF w.i + 1 < Len(w.logs) THEN "get_value" ELSE "final_commit"]

\* employee = frappe.db.get_value(...); if not employee: errors.append; continue
WorkerGetValue(n) ==
    LET w == workers[n]
        log == w.logs[w.i + 1]
        employee == get_value(employees, log.user_id)
    IN  /\ w.at = "get_value"
        /\ workers' = [workers EXCEPT ![n] =
                          IF NotEmployee(employee)
                          THEN [EndOfRecord(w) EXCEPT
                                   !.errors = Append(@, NotFound(log.user_id))]
                          ELSE [w EXCEPT !.employee = employee, !.at = "exists"]]
        /\ UNCHANGED storeVars
        /\ WorkerFrame

\* exists = frappe.db.exists(...); when the row exists the iteration ends,
\* with its batch commit if due.
WorkerExists(n) ==
    LET w == workers[n]
        log == w.logs[w.i + 1]
        found == exists(checkins, w.employee, fromtimestamp(log.timestamp),
                        LogType(log.in_out_type))
    IN  /\ w.at = "exists"
        /\ workers' = [workers EXCEPT ![n] =
                          IF found THEN EndOfRecord(w)
                          ELSE [w EXCEPT !.at = "insert"]]
        /\ committed' = IF found /\ BatchDue(w.i) THEN Len(checkins) ELSE committed
        /\ UNCHANGED checkins
        /\ WorkerFrame

\* checkin.insert(ignore_permissions=True); synced_count += 1; batch commit
WorkerInsert(n) ==
    LET w == workers[n]
        log == w.logs[w.i + 1]
    IN  /\ w.at = "insert"
        /\ checkins' = insert(checkins, w.employee, fromtimestamp(log.timestamp),
                              LogType(log.in_out_type), w.device_ip)
        /\ workers' = [workers EXCEPT ![n] =
                          [EndOfRecord(w) EXCEPT !.synced_count = @ + 1]]
        /\ committed' = IF BatchDue(w.i) THEN Len(checkins') ELSE committed
        /\ WorkerFrame

\* frappe.db.commit() after the loop
WorkerFinalCommit(n) ==
    /\ workers[n].at = "final_commit"
    /\ committed' = Len(checkins)
    /\ workers' = [workers EXCEPT ![n].at = "return"]
    /\ UNCHANGED checkins
    /\ WorkerFrame

NextRace ==
    \/ \E n \in DOMAIN workers : WorkerGetValue(n)
    \/ \E n \in DOMAIN workers : WorkerExists(n)
    \/ \E n \in DOMAIN workers : WorkerInsert(n)
    \/ \E n \in DOMAIN workers : WorkerFinalCommit(n)

SpecRace == InitRace /\ [][NextRace]_vars

(***************************************************************************)
(* One sync_biometric_device call over a device log longer than a batch    *)
(***************************************************************************)
\* A log of n distinct punches of user 1, the p-th of which (if any) carries
\* user 2 instead.
LongLog(n, p) ==
    [k \in 1..n |-> [user_id |-> IF k = p THEN 2 ELSE 1, timestamp |-> k,
                     verify_type |-> 1, in_out_type |-> 0]]

LongLogs ==
    {LongLog(MaxLongLog, p) : p \in {0} \cup ((BATCH_SIZE - 1)..(BATCH_SIZE + 1))}

InitBatch ==
    /\ employees \in [UserIds -> Employees \cup {None}]
    /\ checkins = <<>>
    /\ committed = 0
    /\ Idle

SyncBiometricDeviceOnce ==
    /\ last = NoRun
    /\ SyncBiometricDevice

NextBatch ==
    \/ SyncBiometricDeviceOnce
    \/ SyncDeviceConnect({1})
    \/ SyncDeviceGetLogs(LongLogs)
    \/ SyncDeviceProcessLog({"none", "commit"})
    \/ SyncDeviceFinalCommit({"none", "commit"})
    \/ SyncDeviceFinally
    \/ SyncBiometricDeviceReturn

SpecBatch == InitBatch /\ [][NextBatch]_vars

(***************************************************************************)
(* Helpers of the properties                                               *)
(***************************************************************************)
Triple(row) == <<row.employee, row.time, row.log_type>>

\* The triple a device record reconciles to under the directory emp.
RecordTriple(emp, log) ==
    <<get_value(emp, log.user_id), fromtimestamp(log.timestamp),
      LogType(log.in_out_type)>>

\* The rows the running sync_device has added to the table.
NewRows == SubSeq(checkins, run0 + 1, Len(checkins))

Resolved(log) == get_value(employees, log.user_id) # None

RECURSIVE Keep(_, _)
\* The records of lg that are resolved (want = TRUE) or unresolved, in order.
Keep(lg, want) ==
    IF lg = <<>> THEN <<>>
    ELSE IF Resolved(Head(lg)) = want THEN <<Head(lg)>> \o Keep(Tail(lg), want)
         ELSE Keep(Tail(lg), want)

RECURSIVE Reconcile(_, _, _, _)
\* The loop of sync_device over lg from index idx on, no store call raising.
Reconcile(st, ip, lg, idx) ==
    IF idx >= Len(lg) THEN st
    ELSE Reconcile(ProcessLog(st, employees, ip, idx, lg[idx + 1], "none"),
                   ip, lg, idx + 1)

\* No store call raised in the running sync_device.
NoStoreException ==
    /\ result # SyncError
    /\ \A k \in 1..Len(errors) : ~IsProcessingError(errors[k])

AtReturn == pc = "return"

(***************************************************************************)
(* C1: after any sequence of sequential sync_device runs the table never   *)
(* holds two Employee Checkin rows with the same (employee, time,          *)
(* log_type), given that it held none at the start.                        *)
(***************************************************************************)
C1_NoDuplicateCheckins ==
    \A j, k \in 1..Len(checkins) :
        j # k => Triple(checkins[j]) # Triple(checkins[k])

\* A run has met the same punch twice in its log, after another device had
\* already left that punch in the table, and inserted nothing for it.
C1_Witness ==
    /\ pc = "final_commit"
    /\ Len(logs) = 2
    /\ errors = <<>>
    /\ RecordTriple(employees, logs[1]) = RecordTriple(employees, logs[2])
    /\ Len(checkins) >= 1
    /\ checkins[1].device_id = Ip(2)
    /\ Triple(checkins[1]) = RecordTriple(employees, logs[1])
    /\ synced_count = 0

(***************************************************************************)
(* C2: a sync_device run that reads the same log as the run before it on   *)
(* the same device, that run having returned success without per-record    *)
(* exception, reports synced = 0 and adds no row to the table.             *)
(***************************************************************************)
SecondRun ==
    /\ AtReturn
    /\ caller = "api"
    /\ last.clean
    /\ last.ip = conn.device_ip
    /\ last.logs = logs

C2_IdempotentSync ==
    SecondRun =>
        /\ "synced" \in DOMAIN result => result.synced = 0
        /\ Len(checkins) = run0

\* The second run read a log with a resolvable punch and returned synced = 0.
C2_Witness ==
    /\ SecondRun
    /\ logs # <<>>
    /\ \E k \in 1..Len(logs) : Resolved(logs[k])
    /\ \E k \in 1..Len(checkins) : checkins[k].device_id = Ip(1)
    /\ result = Synced(0, errors)

(***************************************************************************)
(* C3: when sync_device returns, on every exit path, its connector holds   *)
(* no open socket.                                                         *)
(***************************************************************************)
C3_SocketReleased == AtReturn => conn.socket = None

(***************************************************************************)
(* C5: in a run no store call of which raised, the error list is exactly   *)
(* one "Employee not found" entry per unresolved record, in log order, the *)
(* call returns success, and the table and the synced count are what the   *)
(* loop gives on the log without its unresolved records.                   *)
(***************************************************************************)
UnresolvedErrors(lg) ==
    LET bad == Keep(lg, FALSE)
    IN  [k \in 1..Len(bad) |-> NotFound(bad[k].user_id)]

WithoutUnresolved ==
    Reconcile([checkins |-> SubSeq(checkins, 1, run0), committed |-> 0,
               synced_count |-> 0, errors |-> <<>>],
              conn.device_ip, Keep(logs, TRUE), 0)

C5_UnresolvedIsolation ==
    (AtReturn /\ logs # <<>> /\ NoStoreException) =>
        /\ errors = UnresolvedErrors(logs)
        /\ result = Synced(synced_count, UnresolvedErrors(logs))
        /\ checkins = WithoutUnresolved.checkins
        /\ synced_count = WithoutUnresolved.synced_count
        /\ \A k \in 1..Len(NewRows) : NewRows[k].employee # None

\* One unresolved record and a new valid one: synced = 1 and one error.
C5_Witness ==
    /\ AtReturn
    /\ Len(logs) = MaxLogLen
    /\ ~Resolved(logs[1])
    /\ \A k \in 2..Len(logs) : Resolved(logs[k])
    /\ result.success
    /\ result.synced = 1
    /\ result.errors = OrNone(<<NotFound(logs[1].user_id)>>)

(***************************************************************************)
(* C6: an exception while processing record i is caught: the iteration     *)
(* appends at most one error entry, which carries position i, the loop     *)
(* goes on to record i + 1, the synced count grows with the rows inserted, *)
(* and the result is success unless the final commit itself raises.        *)
(***************************************************************************)
C6_StepIsolated ==
    pc = "loop" =>
        /\ pc' \in {"loop", "final_commit"}
        /\ i' = i + 1
        /\ result' = result
        /\ \/ errors' = errors
           \/ errors' = Append(errors, <<"Error processing log", i>>)
           \/ errors' = Append(errors, NotFound(logs[i + 1].user_id))
        /\ synced_count' - synced_count = Len(checkins') - Len(checkins)

C6_ResultSuccess ==
    (AtReturn /\ logs # <<>> /\ result # SyncError) =>
        /\ i = Len(logs)
        /\ result = Synced(Len(NewRows), errors)
        /\ \A j, k \in 1..Len(errors) :
             (j < k /\ IsProcessingError(errors[j]) /\ IsProcessingError(errors[k]))
                => errors[j][2] < errors[k][2]

C6_ExceptionIsolation == [][C6_StepIsolated]_vars /\ []C6_ResultSuccess

\* The first record raised, the second was inserted, the call succeeded.
C6_Witness ==
    /\ AtReturn
    /\ Len(logs) = 2
    /\ errors = <<<<"Error processing log", 0>>>>
    /\ result = Synced(1, errors)
    /\ Len(NewRows) = 1

(***************************************************************************)
(* C7: sync_all_devices over n >= 1 enabled devices reports                *)
(* devices_synced = n, one error entry per device whose sync failed (None  *)
(* when none failed) and total_records = the sum of the synced counts of   *)
(* the devices that succeeded.                                             *)
(***************************************************************************)
RECURSIVE SumSynced(_)
SumSynced(res) ==
    IF res = <<>> THEN 0
    ELSE (IF Head(res).result.success THEN GetSynced(Head(res).result) ELSE 0)
         + SumSynced(Tail(res))

RECURSIVE FailedEntries(_)
FailedEntries(res) ==
    IF res = <<>> THEN <<>>
    ELSE (IF Head(res).result.success THEN <<>>
          ELSE <<<<Head(res).device, Head(res).result.message>>>>)
         \o FailedEntries(Tail(res))

FleetReturned == pc = "fleet_return" /\ devices # <<>>

C7_FleetAggregation ==
    FleetReturned =>
        /\ fleet_result.devices_synced = Len(devices)
        /\ fleet_result.total_records = SumSynced(fleet_result.results)
        /\ fleet_result.errors = OrNone(FailedEntries(fleet_result.results))
        /\ Len(fleet_result.results) = Len(devices)

\* The first device failed, the second synced one record.
C7_Witness ==
    /\ FleetReturned
    /\ Len(devices) = 2
    /\ ~fleet_result.results[1].result.success
    /\ fleet_result.results[2].result.success
    /\ fleet_result.total_records = 1
    /\ Len(fleet_result.errors.items) = 1

(***************************************************************************)
(* C8: in one sync_all_devices call every enabled device is attempted      *)
(* exactly once, in the order of the list, whatever the outcome of the     *)
(* devices before it.                                                      *)
(***************************************************************************)
InDeviceSync == caller = "fleet"

C8_FleetContinuation ==
    /\ InDeviceSync =>
          /\ d < Len(devices)
          /\ Len(results) = d
          /\ conn.device_ip = devices[d + 1].device_ip
    /\ pc \in {"fleet_loop", "fleet_return"} =>
          /\ Len(results) = d
          /\ \A k \in 1..Len(results) :
                /\ results[k].device = devices[k].name
                /\ results[k].ip = devices[k].device_ip
    /\ FleetReturned => d = Len(devices)

\* The second device is being synced after the first one failed.
C8_Witness ==
    /\ InDeviceSync
    /\ pc = "loop"
    /\ d = 1
    /\ ~results[1].result.success

(***************************************************************************)
(* C9: sync_all_devices returns success = true whenever the device list    *)
(* was loaded (empty list: devices_synced = 0 and no error; devices        *)
(* failing: still success) and success = false with devices_synced = 0     *)
(* only from its outer exception handler.                                  *)
(***************************************************************************)
C9_Returns ==
    pc' = "fleet_return" =>
        \/ pc = "fleet_return"
        \/ pc = "idle" /\ devices' = <<>> /\ fleet_result' = NoDevices
        \/ pc = "fleet_except" /\ fleet_result' = FleetFailed
        \/ /\ pc = "fleet_loop"
           /\ fleet_result'.success
           /\ fleet_result'.devices_synced = Len(devices)

C9_FleetSuccessFlag ==
    /\ [][C9_Returns]_vars
    /\ [](pc = "fleet_return" =>
             /\ fleet_result.success \/ fleet_result = FleetFailed
             /\ devices # <<>> => fleet_result.success)

\* Every device of the list failed and the call still reports success.
C9_Witness ==
    /\ FleetReturned
    /\ Len(devices) = MaxDevices
    /\ fleet_result.success
    /\ Len(fleet_result.errors.items) = Len(devices)

(***************************************************************************)
(* C4: during a sync_device run the rows inserted since the last commit    *)
(* never exceed the batch size: a commit follows every 100th record        *)
(* whatever the outcome of the records, and one final commit follows the   *)
(* loop.                                                                   *)
(***************************************************************************)
Uncommitted == Len(checkins) - committed

C4_CommitBatching ==
    /\ Uncommitted <= BATCH_SIZE
    /\ (pc \in {"loop", "final_commit"} /\ i > 0 /\ i % BATCH_SIZE = 0)
          => Uncommitted = 0
    /\ (pc \in {"finally", "return"} /\ result.success) => Uncommitted = 0

\* The bound alone: more than a batch of rows is uncommitted.
C4_AtMostOneBatch == Uncommitted <= BATCH_SIZE

(***************************************************************************)
(* C10: disconnect() never raises and, when it has returned, the           *)
(* connector's socket is closed and its handle cleared, also when sending  *)
(* the disconnect command failed.                                          *)
(***************************************************************************)
C10_DisconnectContract == call.op = "disconnect" => conn.socket = None

\* A second disconnect() in a row changes nothing and sends nothing.
C10_SecondDisconnect ==
    [][(call.op = "disconnect" /\ call'.op = "disconnect") => conn' = conn]_vars

(***************************************************************************)
(* Helpers of the properties about the wire                                *)
(***************************************************************************)
\* The 16-bit fields of a 10-byte header a connector sent.
Command(frame) == frame[1] + 256 * frame[2]
SessionId(frame) == frame[5] + 256 * frame[6]
ReplyId(frame) == frame[7] + 256 * frame[8]

\* The datagrams with command code cmd among those a connector sent.
Sent(c, cmd) == {k \in 1..Len(c.sent) : Command(c.sent[k]) = cmd}

(***************************************************************************)
(* C11: a read-logs datagram is sent only while the channel is Connected:  *)
(* get_attendance_logs called on a connector that was never connected,     *)
(* whose connect() has just returned false, or that has just been          *)
(* disconnected sends no datagram and returns no record.                   *)
(***************************************************************************)
NotConnected ==
    \/ call.op = None
    \/ call.op = "connect" /\ ~call.ok
    \/ call.op = "disconnect"

C11_CommandsOnlyConnected ==
    [][(NotConnected /\ call'.op = "get_attendance_logs")
          => (conn'.sent = conn.sent /\ call'.logs = <<>>)]_vars

(***************************************************************************)
(* C12: when connect() returns false, sync_device returns success = false  *)
(* with a message naming the device address, has sent no read-logs         *)
(* command and has not touched the store: no lookup, no existence check,   *)
(* no insert, no commit.                                                   *)
(***************************************************************************)
ConnectReturnedFalse ==
    /\ pc = "connect"
    /\ \E o \in ConnectOutcomes({1}) :
         /\ ~connect(conn, o).ret
         /\ conn' = connect(conn, o).conn

C12_FailedStep ==
    ConnectReturnedFalse =>
        /\ pc' = "return"
        /\ result' = [success |-> FALSE,
                      message |-> <<"Failed to connect to device at", conn.device_ip>>]
        /\ UNCHANGED <<checkins, committed, i, synced_count, errors>>
        /\ Sent(conn', CMD_ATTLOG) = {}

C12_AtReturn ==
    (AtReturn /\ failures # <<>> /\ failures[1] = "connect") =>
        /\ result = [success |-> FALSE,
                     message |-> <<"Failed to connect to device at", conn.device_ip>>]
        /\ Sent(conn, CMD_ATTLOG) = {}
        /\ Len(checkins) = run0
        /\ i = 0
        /\ errors = <<>>

C12_ConnectFailureStops == [][C12_FailedStep]_vars /\ []C12_AtReturn

\* The connect request went out, no usable reply came back, and the call
\* returned the failure over a table that holds a row.
C12_Witness ==
    /\ AtReturn
    /\ Sent(conn, CMD_CONNECT) # {}
    /\ failures = <<"connect">>
    /\ result.message = <<"Failed to connect to device at", Ip(1)>>
    /\ checkins # <<>>
    /\ Len(checkins) = run0

(***************************************************************************)
(* C13: no failure of a device sync is silently dropped: every connect     *)
(* failure, read-logs timeout or send error, read-logs reply shorter than  *)
(* the header, unresolved employee and per-record exception has a          *)
(* diagnostic log entry and shows in the result sync_device returns.       *)
(***************************************************************************)
Reflected(f) ==
    IF f = "connect"
    THEN ~result.success
    ELSE IF f \in {"read_send", "read_timeout", "read_short"}
    THEN result # NoNewLogs
    ELSE \/ ~result.success
         \/ /\ "errors" \in DOMAIN result
            /\ \E k \in 1..Len(result.errors.items) :
                 IF f = "record" THEN IsProcessingError(result.errors.items[k])
                 ELSE IsNotFound(result.errors.items[k])

C13_NoFailureDropped ==
    AtReturn =>
        /\ Len(diag) >= Len(failures)
        /\ \A k \in 1..Len(failures) : Reflected(failures[k])

\* The part about the result alone.
C13_Reflected == AtReturn => \A k \in 1..Len(failures) : Reflected(failures[k])

(***************************************************************************)
(* C14: for a read-logs reply of L bytes get_attendance_logs returns no    *)
(* record when L < 8 and otherwise floor((L - 8) / 40) records, the k-th   *)
(* decoded from the 40 bytes at offset 8 + 40 * k (user id from bytes 0-3, *)
(* timestamp from bytes 4-7, verify type from byte 8, in/out type from     *)
(* byte 9), in slot order; a shorter remainder is discarded.               *)
(***************************************************************************)
\* The little-endian value of the n bytes of b after offset (from 0).
RECURSIVE ValueAt(_, _, _)
ValueAt(b, offset, n) ==
    IF n = 0 THEN 0 ELSE b[offset + 1] + 256 * ValueAt(b, offset + 1, n - 1)

ExpectedLogs(b) ==
    IF Len(b) < 8 THEN <<>>
    ELSE [k \in 1..((Len(b) - 8) \div 40) |->
            [user_id |-> ValueAt(b, 8 + 40 * (k - 1), 4),
             timestamp |-> ValueAt(b, 8 + 40 * (k - 1) + 4, 4),
             verify_type |-> b[8 + 40 * (k - 1) + 8 + 1],
             in_out_type |-> b[8 + 40 * (k - 1) + 9 + 1]]]

C14_LogDecoding ==
    call.op = "get_attendance_logs" => call.logs = ExpectedLogs(data)

\* A reply of two slots and five more bytes decoded to two records.
C14_Witness ==
    /\ call.op = "get_attendance_logs"
    /\ Len(data) = 8 + 40 * 2 + 5
    /\ Len(call.logs) = 2
    /\ call.logs[2].user_id > 65535
    /\ call.logs[2].verify_type # call.logs[2].in_out_type

(***************************************************************************)
(* C15: the header _create_header builds is 10 bytes with a zero reserved  *)
(* field, and the 16-bit fields at byte offsets 0, 4, 6 and 8 (4 and 6     *)
(* being where connect() reads the session id and the reply id) are the    *)
(* command, the session id, the reply id and the payload length given.     *)
(***************************************************************************)
C15_HeaderRoundTrip ==
    call.op = "_create_header" =>
        /\ Len(data) = 10
        /\ \A k \in 1..10 : data[k] \in 0..255
        /\ ValueAt(data, 0, 2) = call.args[1]
        /\ ValueAt(data, 2, 2) = 0
        /\ ValueAt(data, 4, 2) = conn.session_id
        /\ ValueAt(data, 6, 2) = conn.reply_id
        /\ ValueAt(data, 8, 2) = call.args[2]
        /\ session_of(data) = conn.session_id
        /\ reply_of(data) = conn.reply_id

\* A header whose every field needs both of its bytes or its top value.
C15_Witness ==
    /\ call.op = "_create_header"
    /\ call.args = <<65535, 258>>
    /\ conn.session_id = 258
    /\ conn.reply_id = 256

(***************************************************************************)
(* C16: when two sync_device invocations run concurrently and both logs    *)
(* hold a punch resolving to the same (employee, time, log_type), the      *)
(* existence check and the insert act as a critical section: under every   *)
(* interleaving at most one row with that triple is in the table.          *)
(***************************************************************************)
RowsWith(t) == {k \in 1..Len(checkins) : Triple(checkins[k]) = t}

C16_ConcurrentDedup ==
    \A k \in 1..Len(checkins) : Cardinality(RowsWith(Triple(checkins[k]))) <= 1

(***************************************************************************)
(* C17: a connector's session id and reply id are 0 from construction and  *)
(* change only in a connect() that succeeds, which sets them to the values *)
(* at bytes 4-5 and 6-7 of the device's reply; every read-logs and         *)
(* disconnect command sent carries the two values the connector holds.     *)
(***************************************************************************)
C17_Constructed ==
    call.op = None => (conn.session_id = 0 /\ conn.reply_id = 0)

C17_Step ==
    /\ (conn'.session_id # conn.session_id \/ conn'.reply_id # conn.reply_id)
          => (call'.op = "connect" /\ call'.ok)
    /\ (call'.op = "connect" /\ call'.ok) =>
          /\ Len(data') >= 8
          /\ conn'.session_id = ValueAt(data', 4, 2)
          /\ conn'.reply_id = ValueAt(data', 6, 2)
    /\ \A k \in (Len(conn.sent) + 1)..Len(conn'.sent) :
          Command(conn'.sent[k]) \in {CMD_ATTLOG, CMD_EXIT} =>
              /\ SessionId(conn'.sent[k]) = conn'.session_id
              /\ ReplyId(conn'.sent[k]) = conn'.reply_id

C17_SessionIdTracking == []C17_Constructed /\ [][C17_Step]_vars

\* A connect failed, the next one got session id 258 and reply id 0, and
\* the read-logs command sent after it carries them.
C17_Witness ==
    /\ call.op = "get_attendance_logs"
    /\ Len(conn.sent) = 3
    /\ Command(conn.sent[1]) = CMD_CONNECT
    /\ Command(conn.sent[2]) = CMD_CONNECT
    /\ Command(conn.sent[3]) = CMD_ATTLOG
    /\ conn.session_id = 258
    /\ conn.reply_id = 0
    /\ SessionId(conn.sent[3]) = 258
    /\ ReplyId(conn.sent[3]) = 0

(***************************************************************************)
(* C18: every connect command a connector sends carries session id 0 and   *)
(* reply id 0, also when connect() is called again on a connector that has *)
(* connected or been disconnected before.                                  *)
(***************************************************************************)
C18_ConnectRequestIds ==
    \A k \in Sent(conn, CMD_CONNECT) :
        SessionId(conn.sent[k]) = 0 /\ ReplyId(conn.sent[k]) = 0

(***************************************************************************)
(* C19: every sync_device call that has started returns a result, and      *)
(* every sync_all_devices call that has loaded its device list returns a   *)
(* fleet result, whatever devices are unreachable.                         *)
(***************************************************************************)
C19_Termination ==
    /\ (pc = "connect") ~> AtReturn
    /\ (pc = "fleet_loop") ~> (pc = "fleet_return")

\* A fleet call has returned after every one of its devices failed to connect.
C19_Witness ==
    /\ pc = "fleet_return"
    /\ Len(devices) = MaxDevices
    /\ Len(fleet_result.results) = MaxDevices
    /\ \A k \in 1..MaxDevices :
          fleet_result.results[k].result.message[1] = "Failed to connect to device at"

(***************************************************************************)
(* C20: every record of the log has exactly one outcome, synced (one row   *)
(* gained, tagged with the device address and with IN for in/out byte 0,   *)
(* OUT otherwise), skipped as already present, or one error entry; so when *)
(* sync_device completes, n = synced + skipped + errors and synced is the  *)
(* number of rows the table gained.                                        *)
(***************************************************************************)
C20_OneOutcome ==
    pc = "loop" =>
        LET log == logs[i + 1]
            row == [employee |-> get_value(employees, log.user_id),
                    time |-> fromtimestamp(log.timestamp),
                    log_type |-> IF log.in_out_type = 0 THEN "IN" ELSE "OUT",
                    device_id |-> conn.device_ip]
        IN  \/ /\ synced_count' = synced_count + 1
               /\ errors' = errors
               /\ checkins' = Append(checkins, row)
            \/ /\ synced_count' = synced_count
               /\ Len(errors') = Len(errors) + 1
               /\ checkins' = checkins
            \/ /\ synced_count' = synced_count
               /\ errors' = errors
               /\ checkins' = checkins
               /\ \E k \in 1..Len(checkins) : Triple(checkins[k]) = Triple(row)

C20_Completed ==
    (AtReturn /\ "synced" \in DOMAIN result /\ logs # <<>>) =>
        /\ result.synced = Len(NewRows)
        /\ result.synced + Len(errors) <= Len(logs)
        /\ result.errors = OrNone(errors)

C20_RecordAccounting == [][C20_OneOutcome]_vars /\ []C20_Completed

\* The totals alone, when the call has returned.
C20_Totals == C20_Completed

====
